---- MODULE Spec2Model ----
(***************************************************************************)
(* Model of the ICP tracking cursor, the campaign sequence steps and the   *)
(* campaign status endpoints of sdr-app.  The database (Supabase tables)   *)
(* is the shared state; every repository call is one statement on it.     *)
(***************************************************************************)
EXTENDS Integers, Sequences, FiniteSets, TLC

\* ---------------------------------------------------------------- bounds
MaxPage  == 2   \* page numbers drawn from 1..MaxPage
MaxLeads == 2   \* cap of the lead counters
MaxTime  == 2   \* clock values 0..MaxTime
\* timedelta(days=1): the clock counts days
Day      == 1

\* Python None / SQL NULL for an optional column: the empty tuple; a present
\* value v of an optional column is <<v>>.
None == <<>>
Some(v) == <<v>>
IsNone(x) == x = None
Val(x) == x[1]

\* Python truthiness of an Optional[int]: None and 0 are falsy.
Truthy(x) == (~IsNone(x)) /\ Val(x) # 0

\* (x or 0) on an integer column: the counters are never NULL (column
\* default 0, and no request can store None), so only 0 is falsy
OrZero(x) == IF x = 0 THEN 0 ELSE x

TrackingStatuses == {"active", "paused", "completed", "failed"}
Pages      == 1..MaxPage
OptPages   == {None} \cup {Some(n) : n \in 0..MaxPage}
Counts     == 0..MaxLeads
Messages   == {"provider error"}

VARIABLES
    now,        \* datetime.now(timezone.utc), in clock units
    tracking,   \* the icp_tracking row
    resp,       \* HTTP status of the last request served (0: none yet)
    op,         \* name of the last request served
    wpc, wreq, wrec, wicp,   \* fetch workers inside update_tracking_progress
    icp_total,  \* icps.leads_fetched_total of the tracked ICP
    steps,      \* the campaign_sequences table: a set of rows
    next_id,    \* the id the next inserted step gets
    cpc, creq,  \* server processes inside create_sequence_step
    campaign,   \* the campaigns row
    cmetrics,   \* the aggregate counters of the campaigns row
    mpc, mreq,  \* callers inside CampaignRepository.increment_metric
    bant,       \* the BANT columns of the leads row
    lead,       \* the outreach and ghost-tracking columns of the leads row
    err,        \* error raised by the last lifecycle operation ("none": none)
    held,       \* history: the lead went ghosted and was not re-engaged since
    is_active,  \* campaign_sequences.is_active, by row id
    found,      \* what the last get_next_step returned
    delay,      \* campaign_sequences.delay_days/hours/minutes, by row id
    fired_at,   \* when the previous step of the lead fired (None: no step yet)
    sent,       \* sends handed to the delivery collaborator, by step number
    ppc, pread, \* concurrent scheduler passes: position, what the pass read
    lcount,     \* leads.emails_opened / emails_clicked / emails_replied
    scount,     \* campaign_sequences.total_opened / _clicked / _replied
    seen,       \* history: the delivery notifications received so far
    late,       \* history: an outcome was applied while the campaign was paused
    cond,       \* campaign_sequences.condition_type, by row id
    replied,    \* a reply was recorded since the previous step fired
    skipped,    \* history: step numbers skipped on a failing condition
    kpc, kreq   \* server processes inside a campaign status endpoint

raceVars    == <<wpc, wreq, wrec, wicp, icp_total>>
stepVars    == <<steps, next_id, cpc, creq>>
metricVars  == <<cmetrics, mpc, mreq>>
leadVars    == <<lead, err, held>>
seqVars     == <<is_active, found>>
schedVars   == <<delay, fired_at, sent>>
passVars    == <<ppc, pread>>
outcomeVars == <<lcount, scount, seen, late>>
condVars    == <<cond, replied, skipped>>
campRaceVars == <<kpc, kreq>>
extVars     == <<metricVars, bant, leadVars, seqVars, schedVars, passVars,
                 outcomeVars, condVars, campRaceVars>>
baseVars    == <<tracking, raceVars, stepVars, campaign>>
vars == <<now, tracking, resp, op, wpc, wreq, wrec, wicp, icp_total,
          steps, next_id, cpc, creq, campaign, cmetrics, mpc, mreq,
          bant, lead, err, held, is_active, found, delay, fired_at,
          sent, ppc, pread, lcount, scount, seen, late, cond, replied,
          skipped, kpc, kreq>>

\* ------------------------------------------------------ icp_tracking row
\* Column defaults of a freshly inserted row.
NewTracking ==
    [ current_page        |-> 1,
      total_pages         |-> None,
      total_leads_fetched |-> 0,
      daily_leads_fetched |-> 0,
      last_daily_reset_at |-> None,
      status              |-> "active",
      error_message       |-> None,
      last_error_at       |-> None ]

\* ICPTrackingProgress request bodies.
ProgressInputs ==
    [ current_page : Pages, leads_fetched : 0..MaxLeads, total_pages : OptPages ]

\* ICPTrackingRepository.update_progress: `record` is the row as read by
\* get_by_id, `row` the row the UPDATE statement is applied to.  The UPDATE
\* also stamps last_fetched_at, a column nothing reads.  It overwrites current_page and both counters, total_pages when
\* the request's total_pages is truthy, and status when the request's
\* total_pages is truthy and reached.
update_progress(row, record, progress) ==
    [ row EXCEPT
        !.current_page        = progress.current_page,
        !.total_leads_fetched = OrZero(record.total_leads_fetched) + progress.leads_fetched,
        !.daily_leads_fetched = OrZero(record.daily_leads_fetched) + progress.leads_fetched,
        !.total_pages         = IF Truthy(progress.total_pages)
                                THEN progress.total_pages ELSE @,
        !.status              = IF Truthy(progress.total_pages)
                                   /\ progress.current_page >= Val(progress.total_pages)
                                THEN "completed" ELSE @ ]

\* ICPTrackingRepository.set_error
set_error(row, error_message, t) ==
    [ row EXCEPT !.status = "failed",
                 !.error_message = Some(error_message),
                 !.last_error_at = Some(t) ]

\* clear_error written to restart the fetch from the first page
clear_error_restart(row) ==
    [ row EXCEPT !.status = "active",
                 !.error_message = None,
                 !.last_error_at = None,
                 !.current_page = 1 ]

\* ICPTrackingRepository.clear_error
clear_error(row) ==
    [ row EXCEPT !.status = "active",
                 !.error_message = None,
                 !.last_error_at = None ]

\* ICPTrackingRepository.pause
pause(row) == [ row EXCEPT !.status = "paused" ]

\* ICPTrackingRepository.resume
resume(row) == [ row EXCEPT !.status = "active" ]

\* The filter of reset_daily_counts:
\* last_daily_reset_at.is.null or last_daily_reset_at.lt.(now - 1 day)
needs_reset(row, t) ==
    IsNone(row.last_daily_reset_at) \/ Val(row.last_daily_reset_at) < t - Day

\* reset_daily_counts without its filter on last_daily_reset_at
reset_daily_counts_unfiltered(row, t) ==
    [ row EXCEPT !.daily_leads_fetched = 0,
                 !.last_daily_reset_at = Some(t) ]

\* ICPTrackingRepository.reset_daily_counts, on one row
reset_daily_counts(row, t) ==
    IF needs_reset(row, t)
    THEN [ row EXCEPT !.daily_leads_fetched = 0,
                      !.last_daily_reset_at = Some(t) ]
    ELSE row

\* ICPTrackingUpdate request bodies (PATCH): model_dump(exclude_none=True)
\* keeps the fields that are set.  Bodies are drawn with at most one field
\* set; a body with several fields overwrites each of them the same way.
UpdateFields ==
    {"current_page", "total_pages", "total_leads_fetched",
     "daily_leads_fetched", "status", "error_message"}

UpdateValues(f) ==
    CASE f = "current_page"        -> Pages
      [] f = "total_pages"         -> {Some(n) : n \in 0..MaxPage}
      [] f = "total_leads_fetched" -> Counts
      [] f = "daily_leads_fetched" -> Counts
      [] f = "status"              -> TrackingStatuses
      [] f = "error_message"       -> {Some(m) : m \in Messages}

\* ICPTrackingRepository.update with update_data = {f: v}
update(row, f, v) == [ row EXCEPT ![f] = v ]

\* _add_tracking_computed_fields, has_more_pages of a response:
\* current = current_page or 1; current < total when total is set and
\* positive, True otherwise.  ICPTracking.has_more_pages computes the same.
has_more_pages(row) ==
    LET current == IF row.current_page = 0 THEN 1 ELSE row.current_page
    IN  IF Truthy(row.total_pages) /\ Val(row.total_pages) > 0
        THEN current < Val(row.total_pages)
        ELSE TRUE

\* ------------------------------------------------------- tracker requests
\* The clock advances.
Tick ==
    /\ now < MaxTime
    /\ now' = now + 1
    /\ UNCHANGED <<tracking, resp, op>>

\* POST /icp-tracking/{id}/progress (update_tracking_record_progress)
Progress(progress) ==
    /\ tracking.total_leads_fetched + progress.leads_fetched <= MaxLeads
    /\ tracking.daily_leads_fetched + progress.leads_fetched <= MaxLeads
    /\ tracking' = update_progress(tracking, tracking, progress)
    /\ resp' = 200
    /\ op' = "progress"
    /\ UNCHANGED now

\* PATCH /icp-tracking/{id} with one field set
Update(f, v) ==
    /\ tracking' = update(tracking, f, v)
    /\ resp' = 200
    /\ op' = "update"
    /\ UNCHANGED now

\* PATCH /icp-tracking/{id} with an empty body: get_by_id is returned
UpdateEmpty ==
    /\ resp' = 200
    /\ op' = "update"
    /\ UNCHANGED <<now, tracking>>

\* POST /icps/{id}/tracking/pause
Pause ==
    /\ tracking' = pause(tracking)
    /\ resp' = 200
    /\ op' = "pause"
    /\ UNCHANGED now

\* POST /icps/{id}/tracking/resume
Resume ==
    /\ tracking' = resume(tracking)
    /\ resp' = 200
    /\ op' = "resume"
    /\ UNCHANGED now

\* POST /icp-tracking/{id}/error
SetError(m) ==
    /\ tracking' = set_error(tracking, m, now)
    /\ resp' = 200
    /\ op' = "set_error"
    /\ UNCHANGED now

\* POST /icp-tracking/{id}/clear-error
ClearError ==
    /\ tracking' = clear_error(tracking)
    /\ resp' = 200
    /\ op' = "clear_error"
    /\ UNCHANGED now

\* The daily job: reset_daily_counts over the table
ResetDaily ==
    /\ tracking' = reset_daily_counts(tracking, now)
    /\ op' = "reset_daily_counts"
    /\ UNCHANGED <<now, resp>>

\* ------------------------------------------- concurrent fetch workers
\* Two server processes serve POST /icps/{id}/tracking/progress
\* (update_tracking_progress) for the same ICP.  Each database statement
\* of the handler is one step; nothing in the handler or the repositories
\* opens a transaction, locks the row or conditions the UPDATE on the
\* values read.
Workers == {1, 2}

NoProgress == [ current_page |-> 1, leads_fetched |-> 0, total_pages |-> None ]

\* ICPRepository.increment_leads_fetched: the value written, from the
\* leads_fetched_total read by get_by_id
increment_leads_fetched(read_total, count) == OrZero(read_total) + count

\* update_progress, line 192: record = get_by_id(tracking_id)
WorkerRead(w, progress) ==
    /\ wpc[w] = "idle"
    /\ wreq' = [wreq EXCEPT ![w] = progress]
    /\ wrec' = [wrec EXCEPT ![w] = tracking]
    /\ wpc' = [wpc EXCEPT ![w] = "write"]
    /\ UNCHANGED <<now, tracking, resp, op, wicp, icp_total>>

\* update_progress, line 210: the UPDATE built from the record read
WorkerWrite(w) ==
    /\ wpc[w] = "write"
    /\ tracking' = update_progress(tracking, wrec[w], wreq[w])
    /\ wpc' = [wpc EXCEPT ![w] = "icp_read"]
    /\ UNCHANGED <<now, resp, op, wreq, wrec, wicp, icp_total>>

\* increment_leads_fetched, line 103: icp = get_by_id(icp_id)
WorkerIcpRead(w) ==
    /\ wpc[w] = "icp_read"
    /\ wicp' = [wicp EXCEPT ![w] = icp_total]
    /\ wpc' = [wpc EXCEPT ![w] = "icp_write"]
    /\ UNCHANGED <<now, tracking, resp, op, wreq, wrec, icp_total>>

\* increment_leads_fetched, line 108: the UPDATE of leads_fetched_total
WorkerIcpWrite(w) ==
    /\ wpc[w] = "icp_write"
    /\ icp_total' = increment_leads_fetched(wicp[w], wreq[w].leads_fetched)
    /\ wpc' = [wpc EXCEPT ![w] = "done"]
    /\ resp' = 200
    /\ UNCHANGED <<now, tracking, op, wreq, wrec, wicp>>

\* ------------------------------------------------- campaign sequences
MaxSteps  == 2   \* rows ever inserted into campaign_sequences
MaxStepNo == 2   \* step numbers drawn from 1..MaxStepNo

Campaigns   == {"c1", "c2"}
StepNumbers == 1..MaxStepNo      \* step_number: int = Field(..., ge=1)
Procs       == {1, 2}
NoStep      == [ campaign_id |-> "c1", step_number |-> 1 ]

\* get_step written without the campaign_id filter
get_step_any_campaign(rows, campaign_id, step_number) ==
    { r \in rows : r.step_number = step_number }

\* CampaignSequenceRepository.get_step: the rows the SELECT matches; the
\* caller gets the first one, or None when there is none
get_step(rows, campaign_id, step_number) ==
    { r \in rows : r.campaign_id = campaign_id /\ r.step_number = step_number }

\* CampaignSequenceRepository.get_by_id
get_by_id(rows, sequence_id) == { r \in rows : r.id = sequence_id }

\* CampaignSequenceRepository.create: INSERT of one row
create(rows, id, campaign_id, step_number) ==
    rows \cup { [ id |-> id, campaign_id |-> campaign_id,
                  step_number |-> step_number ] }

\* CampaignSequenceRepository.update with update_data = {step_number: n},
\* and CampaignSequenceRepository.reorder: UPDATE ... WHERE id = sequence_id
set_step_number(rows, sequence_id, new_step_number) ==
    { IF r.id = sequence_id
      THEN [ r EXCEPT !.step_number = new_step_number ] ELSE r : r \in rows }

\* CampaignSequenceRepository.delete
delete(rows, sequence_id) == { r \in rows : r.id # sequence_id }

\* create_sequence_step, lines 329-342: the conflict check.  A conflict
\* answers 400; otherwise the process goes on to the INSERT.
CreateCheck(p, campaign_id, step_number) ==
    /\ cpc[p] = "idle"
    /\ IF get_step(steps, campaign_id, step_number) # {}
       THEN /\ resp' = 400
            /\ UNCHANGED <<cpc, creq>>
       ELSE /\ cpc' = [cpc EXCEPT ![p] = "insert"]
            /\ creq' = [creq EXCEPT ![p] =
                          [ campaign_id |-> campaign_id, step_number |-> step_number ]]
            /\ UNCHANGED resp
    /\ UNCHANGED <<now, op, steps, next_id>>

\* create_sequence_step, lines 344-351: the INSERT
CreateInsert(p) ==
    /\ cpc[p] = "insert"
    /\ next_id <= MaxSteps
    /\ steps' = create(steps, next_id, creq[p].campaign_id, creq[p].step_number)
    /\ next_id' = next_id + 1
    /\ cpc' = [cpc EXCEPT ![p] = "idle"]
    /\ creq' = [creq EXCEPT ![p] = NoStep]    \* the request is over
    /\ resp' = 201
    /\ UNCHANGED <<now, op>>

\* The 404 / 403 checks shared by update_sequence_step and
\* delete_sequence_step: 0 when the request passes them.
sequence_access(rows, campaign_id, sequence_id) ==
    IF get_by_id(rows, sequence_id) = {} THEN 404
    ELSE IF \A r \in get_by_id(rows, sequence_id) : r.campaign_id # campaign_id
         THEN 403 ELSE 0

\* update_sequence_step with {step_number: new_step_number}
UpdateStep(campaign_id, sequence_id, new_step_number) ==
    /\ IF sequence_access(steps, campaign_id, sequence_id) # 0
       THEN /\ resp' = sequence_access(steps, campaign_id, sequence_id)
            /\ UNCHANGED steps
       ELSE /\ steps' = set_step_number(steps, sequence_id, new_step_number)
            /\ resp' = 200
    /\ UNCHANGED <<now, op, next_id, cpc, creq>>

\* CampaignSequenceRepository.reorder; its campaign_id argument is not used
Reorder(sequence_id, new_step_number) ==
    /\ steps' = set_step_number(steps, sequence_id, new_step_number)
    /\ UNCHANGED <<now, resp, op, next_id, cpc, creq>>

\* delete_sequence_step
DeleteStep(campaign_id, sequence_id) ==
    /\ IF sequence_access(steps, campaign_id, sequence_id) # 0
       THEN /\ resp' = sequence_access(steps, campaign_id, sequence_id)
            /\ UNCHANGED steps
       ELSE /\ steps' = delete(steps, sequence_id)
            /\ resp' = 200
    /\ UNCHANGED <<now, op, next_id, cpc, creq>>

StepIds == 1..MaxSteps

\* ------------------------------------------------------------ campaigns
CampaignStatuses ==
    {"draft", "scheduled", "active", "paused", "completed", "archived"}

\* Column defaults of a freshly created campaign.
NewCampaign ==
    [ status |-> "draft", started_at |-> None, completed_at |-> None ]

\* CampaignRepository.start
start(row, t) == [ row EXCEPT !.status = "active", !.started_at = Some(t) ]

\* CampaignRepository.pause
pause_campaign(row) == [ row EXCEPT !.status = "paused" ]

\* CampaignRepository.resume
resume_campaign(row) == [ row EXCEPT !.status = "active" ]

\* CampaignRepository.complete
complete(row, t) ==
    [ row EXCEPT !.status = "completed", !.completed_at = Some(t) ]

\* The clock advances.
CampaignTick ==
    /\ now < MaxTime
    /\ now' = now + 1
    /\ UNCHANGED <<campaign, resp, op>>

\* POST .../{campaign_id}/start
StartCampaign ==
    /\ IF campaign.status \notin {"draft", "paused", "scheduled"}
       THEN resp' = 400 /\ UNCHANGED campaign
       ELSE resp' = 200 /\ campaign' = start(campaign, now)
    /\ op' = "start_campaign"
    /\ UNCHANGED now

\* POST .../{campaign_id}/pause
PauseCampaign ==
    /\ IF campaign.status # "active"
       THEN resp' = 400 /\ UNCHANGED campaign
       ELSE resp' = 200 /\ campaign' = pause_campaign(campaign)
    /\ op' = "pause_campaign"
    /\ UNCHANGED now

\* POST .../{campaign_id}/resume
ResumeCampaign ==
    /\ IF campaign.status # "paused"
       THEN resp' = 400 /\ UNCHANGED campaign
       ELSE resp' = 200 /\ campaign' = resume_campaign(campaign)
    /\ op' = "resume_campaign"
    /\ UNCHANGED now

\* POST .../{campaign_id}/complete: no status check
CompleteCampaign ==
    /\ campaign' = complete(campaign, now)
    /\ resp' = 200
    /\ op' = "complete_campaign"
    /\ UNCHANGED now

\* PATCH .../{campaign_id} with {status: s} (CampaignRepository.update)
UpdateCampaign(s) ==
    /\ campaign' = [ campaign EXCEPT !.status = s ]
    /\ resp' = 200
    /\ op' = "update_campaign"
    /\ UNCHANGED now

\* ------------------------------- concurrent campaign status requests
\* Two server processes serve the start, pause, resume and complete
\* endpoints of the campaign.  Each endpoint reads the row (get_by_id),
\* checks its status and then calls the repository, whose UPDATE ... WHERE
\* id = campaign_id does not look at the status again.
StatusRequests ==
    {"start_campaign", "pause_campaign", "resume_campaign", "complete_campaign"}

\* The status check of an endpoint on the row it read.
status_check(request, row) ==
    CASE request = "start_campaign"    ->
             row.status \in {"draft", "paused", "scheduled"}
      [] request = "pause_campaign"    -> row.status = "active"
      [] request = "resume_campaign"   -> row.status = "paused"
      [] request = "complete_campaign" -> TRUE

\* The repository call of an endpoint.
status_write(request, row, t) ==
    CASE request = "start_campaign"    -> start(row, t)
      [] request = "pause_campaign"    -> pause_campaign(row)
      [] request = "resume_campaign"   -> resume_campaign(row)
      [] request = "complete_campaign" -> complete(row, t)

\* get_by_id and the status check: 400 when it fails
StatusCheck(p, request) ==
    /\ kpc[p] = "idle"
    /\ IF status_check(request, campaign)
       THEN /\ kpc' = [ kpc EXCEPT ![p] = "write" ]
            /\ kreq' = [ kreq EXCEPT ![p] = request ]
            /\ UNCHANGED resp
       ELSE /\ resp' = 400
            /\ UNCHANGED <<kpc, kreq>>
    /\ UNCHANGED <<now, op, campaign>>

\* The UPDATE of the repository call
StatusWrite(p) ==
    /\ kpc[p] = "write"
    /\ campaign' = status_write(kreq[p], campaign, now)
    /\ kpc' = [ kpc EXCEPT ![p] = "idle" ]
    /\ kreq' = [ kreq EXCEPT ![p] = "none" ]
    /\ resp' = 200
    /\ op' = kreq[p]
    /\ UNCHANGED now

\* ----------------------------------------------------- campaign metrics
MaxCount == 2   \* cap of the campaign counters

Metrics      == {"emails_sent", "leads_converted"}
MetricValues == 0..MaxCount
Amounts      == {1, 2}
NoMetric     == [ metric |-> "emails_sent", amount |-> 1, current_value |-> 0 ]

\* Column defaults of the counters of a freshly created campaign.
NewMetrics == [ m \in Metrics |-> 0 ]

\* CampaignUpdateMetrics: every field Optional[int], no bound on the value
MetricUpdates == [ Metrics -> {None} \cup { Some(v) : v \in MetricValues } ]

\* data.model_dump(exclude_none=True): the fields that are set
model_dump(data) == { m \in DOMAIN data : ~IsNone(data[m]) }

\* CampaignRepository.update_metrics: the given fields overwrite the stored
\* counters; an empty body only reads the row
update_metrics(row, data) ==
    IF model_dump(data) = {}
    THEN row
    ELSE [ m \in DOMAIN row |->
             IF m \in model_dump(data) THEN Val(data[m]) ELSE row[m] ]

\* CampaignRepository.increment_metric, the write: the value read earlier
\* plus the amount is stored
increment_metric(row, metric, current_value, amount) ==
    [ row EXCEPT ![metric] = current_value + amount ]

\* update_metrics called with a body
UpdateMetrics(data) ==
    /\ cmetrics' = update_metrics(cmetrics, data)
    /\ UNCHANGED <<mpc, mreq>>

\* increment_metric up to its read of the row (get_by_id)
IncrementRead(p, metric, amount) ==
    /\ mpc[p] = "idle"
    /\ OrZero(cmetrics[metric]) + amount <= MaxCount
    /\ mreq' = [ mreq EXCEPT ![p] = [ metric |-> metric, amount |-> amount,
                                      current_value |-> OrZero(cmetrics[metric]) ] ]
    /\ mpc' = [ mpc EXCEPT ![p] = "write" ]
    /\ UNCHANGED cmetrics

\* increment_metric from its update of the row to its return
IncrementWrite(p) ==
    /\ mpc[p] = "write"
    /\ cmetrics' = increment_metric(cmetrics, mreq[p].metric,
                                    mreq[p].current_value, mreq[p].amount)
    /\ mpc' = [ mpc EXCEPT ![p] = "idle" ]
    /\ mreq' = [ mreq EXCEPT ![p] = NoMetric ]

\* ------------------------------------------------- lead BANT columns
MaxSub     == 1    \* sub-scores in a request drawn from 0..MaxSub
MaxOverall == 12   \* LeadUpdate.bant_score: le=12

Categories == {"budget", "authority", "need", "timeline"}
Scores     == 0..MaxSub

\* The sub-scores a bant_data dictionary carries; a lead without BANT data
\* has every sub-score 0 (not identified).
BantData == [ Categories -> Scores ]

\* Column defaults of the BANT columns of a freshly created lead.
NewBant ==
    [ bant_score  |-> 0,
      bant_data   |-> [ c \in Categories |-> 0 ],
      bant_status |-> "unqualified" ]

\* LeadUpdate.bant_status: pattern ^(unqualified|partially_qualified|qualified)$
BantStatuses == {"unqualified", "partially_qualified", "qualified"}

\* LeadUpdate bodies, BANT fields: bant_score, bant_data, bant_status, all
\* optional; bant_data is Dict[str, Any], its sub-scores are not validated
BantUpdates ==
    [ bant_score  : {None} \cup { Some(n) : n \in 0..(MaxOverall + 1) },
      bant_data   : {None} \cup { Some(d) : d \in BantData },
      bant_status : {None} \cup { Some(q) : q \in BantStatuses } ]

\* The score bands of the qualification status: "unqualified" (0-3),
\* "partially_qualified" (4-7), "qualified" (8-12)
qualification_status(score) ==
    IF score <= 3 THEN "unqualified"
    ELSE IF score <= 7 THEN "partially_qualified"
    ELSE "qualified"

\* Lead.is_bant_qualified: (bant_overall_score or 0) >= 8
is_bant_qualified(row) == OrZero(row.bant_score) >= 8

\* LeadUpdate validation of bant_score: Field(None, ge=0, le=12)
valid_bant_score(x) == IsNone(x) \/ (Val(x) >= 0 /\ Val(x) <= MaxOverall)

\* LeadRepository.update: the given fields overwrite the stored columns; an
\* empty body only reads the row
lead_update(row, data) ==
    IF model_dump(data) = {}
    THEN row
    ELSE [ f \in DOMAIN row |->
             IF f \in model_dump(data) THEN Val(data[f]) ELSE row[f] ]

\* PATCH /leads/tenants/{tenant_id}/{lead_id} with BANT fields
UpdateLeadBant(data) ==
    IF ~valid_bant_score(data.bant_score)
    THEN resp' = 422 /\ UNCHANGED bant
    ELSE resp' = 200 /\ bant' = lead_update(bant, data)

\* ------------------------------------------------------- lead lifecycle
MaxRe == 1   \* re-engagement counts and limits in a request drawn from 0..MaxRe

ConversationStates == {"in_sequence", "engaged", "awaiting_reply", "ghosted"}
GhostTimeouts      == {Day, 2 * Day}
DefaultMaxRe       == 5

\* Column defaults of a freshly created lead (ghost_timeout_hours = 48).
NewLead ==
    [ current_sequence_step   |-> 0,
      is_unsubscribed         |-> FALSE,
      do_not_contact          |-> FALSE,
      conversation_state      |-> "in_sequence",
      ai_last_response_at     |-> None,
      sequence_paused_at_step |-> None,
      ghost_timeout_hours     |-> 2 * Day,
      re_engagement_count     |-> 0,
      max_re_engagements      |-> DefaultMaxRe ]

\* is_contactable with the unsubscribe flag forgotten
is_contactable_no_unsubscribe(row) == ~row.do_not_contact

\* Lead.is_contactable
is_contactable(row) == ~row.is_unsubscribed /\ ~row.do_not_contact

\* is_awaiting_reply that also takes an engaged lead for one awaiting a reply
is_awaiting_reply_or_engaged(row) ==
    row.conversation_state \in {"awaiting_reply", "engaged"}

\* Lead.is_awaiting_reply
is_awaiting_reply(row) == row.conversation_state = "awaiting_reply"

\* Lead.can_re_engage: re_engagement_count < (max_re_engagements or 5)
can_re_engage(row) ==
    row.re_engagement_count <
        (IF row.max_re_engagements = 0 THEN DefaultMaxRe
                                       ELSE row.max_re_engagements)

\* LeadUpdate fields of the lifecycle columns and the values a request
\* carries; none of them is validated, and current_sequence_step is not a
\* field of LeadUpdate.
LeadFields ==
    {"is_unsubscribed", "do_not_contact", "conversation_state",
     "ghost_timeout_hours", "re_engagement_count", "max_re_engagements"}

LeadValues(f) ==
    IF f \in {"is_unsubscribed", "do_not_contact"} THEN BOOLEAN
    ELSE IF f = "conversation_state" THEN ConversationStates
    ELSE IF f = "ghost_timeout_hours" THEN GhostTimeouts
    ELSE 0..MaxRe

\* PATCH /leads/tenants/{tenant_id}/{lead_id} with {f: v}
UpdateLead(f, v) ==
    /\ lead' = lead_update(lead, [ g \in {f} |-> Some(v) ])
    /\ resp' = 200
    /\ err' = "none"
    /\ UNCHANGED now

\* The clock advances.
LeadTick ==
    /\ now < MaxTime
    /\ now' = now + 1
    /\ UNCHANGED <<lead, err, resp>>

\* --------------------------------------- lifecycle state machine (4.1)
NoSignals == [ c \in Categories |-> 0 ]

\* recordOutboundStep(lead, step): refused (InvalidTransition) for a lead
\* that is not contactable; otherwise the lead awaits a reply, stamped now,
\* at the step's number
recordOutboundStep(row, step_number, t) ==
    IF ~is_contactable(row)
    THEN row
    ELSE [ row EXCEPT !.conversation_state = "awaiting_reply",
                      !.ai_last_response_at = Some(t),
                      !.current_sequence_step = step_number ]

\* recordInboundReply(lead, sentiment, bantSignals), lead part: a lead
\* awaiting a reply becomes engaged
recordInboundReply(row) ==
    IF is_awaiting_reply(row)
    THEN [ row EXCEPT !.conversation_state = "engaged" ]
    ELSE row

\* recordInboundReply, BANT part: every sub-score becomes the maximum of the
\* stored score and the new evidence, and the overall score is recomputed
merge_bant(row, signals) ==
    LET merged == [ c \in Categories |->
                      IF signals[c] > row.bant_data[c] THEN signals[c]
                                                       ELSE row.bant_data[c] ]
        score  == merged["budget"] + merged["authority"]
                    + merged["need"] + merged["timeline"]
    IN  [ bant_score  |-> score,
          bant_data   |-> merged,
          bant_status |-> qualification_status(score) ]

\* detectGhost(lead, now): awaiting a reply for longer than the timeout
detectGhost(row, t) ==
    /\ is_awaiting_reply(row)
    /\ ~IsNone(row.ai_last_response_at)
    /\ t - Val(row.ai_last_response_at) > row.ghost_timeout_hours

\* attemptReEngage(lead): a ghosted lead that can be re-engaged returns to
\* the sequence and the attempt is counted; any other lead is left as it is
\* (ReEngagementExhausted)
attemptReEngage(row) ==
    IF row.conversation_state = "ghosted" /\ can_re_engage(row)
    THEN [ row EXCEPT !.re_engagement_count = @ + 1,
                      !.conversation_state = "in_sequence" ]
    ELSE row

\* A scheduler pass over the lead that finds step step_number due and
\* fires it (4.2, steps 1 and 4): leads awaiting a reply or ghosted are
\* skipped.
FireStep(step_number) ==
    /\ lead.conversation_state \notin {"awaiting_reply", "ghosted"}
    /\ step_number > lead.current_sequence_step
    /\ lead' = recordOutboundStep(lead, step_number, now)
    /\ err' = IF is_contactable(lead) THEN "none" ELSE "InvalidTransition"
    /\ UNCHANGED <<now, resp>>

\* The delivery collaborator reports a reply of the lead.
RecordInboundReply(signals) ==
    /\ lead' = recordInboundReply(lead)
    /\ bant' = merge_bant(bant, signals)
    /\ err' = "none"
    /\ UNCHANGED <<now, resp>>

\* A scheduler pass on which detectGhost is true: the lead goes ghosted and
\* the step it stopped at is recorded.
GhostSweep ==
    /\ detectGhost(lead, now)
    /\ lead' = [ lead EXCEPT !.conversation_state = "ghosted",
                   !.sequence_paused_at_step = Some(lead.current_sequence_step) ]
    /\ err' = "none"
    /\ UNCHANGED <<now, resp>>

\* attemptReEngage on the lead
AttemptReEngage ==
    /\ attemptReEngage(lead).re_engagement_count <= MaxRe
    /\ lead' = attemptReEngage(lead)
    /\ err' = IF attemptReEngage(lead) # lead THEN "none"
                                              ELSE "ReEngagementExhausted"
    /\ UNCHANGED <<now, resp>>

\* History of the lead: held is set when the lead is ghosted after a step
\* and cleared when that step is a successful attemptReEngage.
TrackGhost(re_engaged) ==
    held' = IF re_engaged THEN FALSE
            ELSE (held \/ lead'.conversation_state = "ghosted")

\* ------------------------------------------ next step of a sequence
CurrentSteps == 0..MaxStepNo     \* current_sequence_step, 0 = not started

\* The ordering of get_next_step reversed (order by step_number desc)
max_step_number(rows) ==
    CHOOSE n \in { r.step_number : r \in rows } :
        \A r \in rows : n >= r.step_number

\* Least step number of a non-empty set of rows.
min_step_number(rows) ==
    CHOOSE n \in { r.step_number : r \in rows } :
        \A r \in rows : n <= r.step_number

\* get_next_step with the is_active filter forgotten
get_next_step_any_status(rows, active, campaign_id, current_step) ==
    LET matching == { r \in rows : /\ r.campaign_id = campaign_id
                                   /\ r.step_number > current_step }
    IN  IF matching = {} THEN {None}
        ELSE { Some(r) : r \in { m \in matching :
                                   m.step_number = min_step_number(matching) } }

\* CampaignSequenceRepository.get_next_step: the rows of the campaign that
\* are active and lie after current_step, ordered by step_number, limit 1.
\* The result is None when nothing matches; rows with equal step numbers
\* come in no defined order, so any of the first ones may be returned.
get_next_step(rows, active, campaign_id, current_step) ==
    LET matching == { r \in rows : /\ r.campaign_id = campaign_id
                                   /\ active[r.id]
                                   /\ r.step_number > current_step }
    IN  IF matching = {} THEN {None}
        ELSE { Some(r) : r \in { m \in matching :
                                   m.step_number = min_step_number(matching) } }

\* CampaignSequenceRepository.activate: UPDATE ... WHERE id = sequence_id
activate(rows, active, sequence_id) ==
    IF get_by_id(rows, sequence_id) = {} THEN active
    ELSE [ active EXCEPT ![sequence_id] = TRUE ]

\* CampaignSequenceRepository.deactivate
deactivate(rows, active, sequence_id) ==
    IF get_by_id(rows, sequence_id) = {} THEN active
    ELSE [ active EXCEPT ![sequence_id] = FALSE ]

Activate(sequence_id) ==
    /\ is_active' = activate(steps, is_active, sequence_id)
    /\ UNCHANGED found

Deactivate(sequence_id) ==
    /\ is_active' = deactivate(steps, is_active, sequence_id)
    /\ UNCHANGED found

\* A call of get_next_step
GetNextStep(campaign_id, current_step) ==
    /\ found' \in get_next_step(steps, is_active, campaign_id, current_step)
    /\ UNCHANGED is_active

\* ------------------------------------------------ sequencing scheduler
MaxDelay == 1   \* delay_days in a request drawn from 0..MaxDelay

LeadCampaign == "c1"     \* leads.campaign_id of the lead
DelayFields  == {"delay_days", "delay_hours"}
DelayValues(f) == IF f = "delay_days" THEN 0..MaxDelay ELSE {0, 12}

\* Column defaults of the delay columns of a step.
NoDelay == [ delay_days |-> 0, delay_hours |-> 0, delay_minutes |-> 0 ]

\* total_delay_minutes with the days forgotten
total_delay_minutes_no_days(row) ==
    OrZero(row.delay_hours) * 60 + OrZero(row.delay_minutes)

\* CampaignSequence.total_delay_minutes, and the same sum in
\* _add_sequence_computed_fields
total_delay_minutes(row) ==
    OrZero(row.delay_days) * 24 * 60 + OrZero(row.delay_hours) * 60
        + OrZero(row.delay_minutes)

\* Clock units (days) in minutes.
Minutes(t) == t * 24 * 60

\* update_sequence_step with {f: v}, f a delay field
UpdateStepDelay(campaign_id, sequence_id, f, v) ==
    /\ IF sequence_access(steps, campaign_id, sequence_id) # 0
       THEN /\ resp' = sequence_access(steps, campaign_id, sequence_id)
            /\ UNCHANGED delay
       ELSE /\ delay' = [ delay EXCEPT ![sequence_id][f] = v ]
            /\ resp' = 200
    /\ UNCHANGED <<now, fired_at, sent>>

\* The time the delay of the next step counts from: when the previous step
\* fired, or the creation of the lead (time 0) when none has.
previous_step_fired_at == IF IsNone(fired_at) THEN 0 ELSE Val(fired_at)

\* condition_type values a request carries (a column left null counts as
\* "none")
Conditions == {"none", "if_no_reply", "if_replied"}

\* update_sequence_step with {condition_type: c}
SetCondition(campaign_id, sequence_id, c) ==
    /\ IF sequence_access(steps, campaign_id, sequence_id) # 0
       THEN /\ resp' = sequence_access(steps, campaign_id, sequence_id)
            /\ UNCHANGED cond
       ELSE /\ cond' = [ cond EXCEPT ![sequence_id] = c ]
            /\ resp' = 200
    /\ UNCHANGED <<now, replied, skipped>>

\* The condition of a step, evaluated against what was recorded since the
\* previous step fired (4.2, step 3).
condition_holds(row) ==
    CASE cond[row.id] = "none"        -> TRUE
      [] cond[row.id] = "if_no_reply" -> ~replied
      [] cond[row.id] = "if_replied"  -> replied

\* Steps 2 and 3 of a pass: the next active step after current_step is
\* looked up with get_next_step; a step whose condition fails is skipped
\* and the lookup is repeated from the skipped step, at most `fuel` times.
\* The result is the step found (None: none) and the step numbers skipped.
RECURSIVE eligible_step(_, _, _)
eligible_step(current_step, skips, fuel) ==
    UNION { IF IsNone(s) \/ fuel = 0
            THEN { [ step |-> None, skipped |-> skips ] }
            ELSE IF condition_holds(Val(s))
            THEN { [ step |-> s, skipped |-> skips ] }
            ELSE eligible_step(Val(s).step_number,
                               skips \cup {Val(s).step_number}, fuel - 1)
          : s \in get_next_step(steps, is_active, LeadCampaign, current_step) }

\* Greatest of a non-empty set of step numbers.
last_skipped(skips) == CHOOSE n \in skips : \A m \in skips : m <= n

\* due_at = previous_step_fired_at + step.total_delay_minutes (4.2, step 4)
is_due(row) ==
    Minutes(now) >= Minutes(previous_step_fired_at)
                      + total_delay_minutes(delay[row.id])

\* One scheduler pass over the lead (4.2): a lead awaiting a reply or
\* ghosted is skipped; the next active step of its campaign whose
\* condition holds is looked up, the lead advancing past the steps skipped
\* on the way; when the step found is due it is fired and recorded.  A pass
\* that skips nothing and finds no step, or a step not yet due, does
\* nothing.
SchedulerPass ==
    /\ lead.conversation_state \notin {"awaiting_reply", "ghosted"}
    /\ \E c \in eligible_step(lead.current_sequence_step, {}, MaxStepNo) :
          LET advanced ==
                IF c.skipped = {} THEN lead
                ELSE [ lead EXCEPT
                         !.current_sequence_step = last_skipped(c.skipped) ]
          IN  /\ IF ~IsNone(c.step) /\ is_due(Val(c.step))
                 THEN /\ lead' = recordOutboundStep(advanced,
                                     Val(c.step).step_number, now)
                      /\ err' = IF is_contactable(lead) THEN "none"
                                                      ELSE "InvalidTransition"
                      /\ fired_at' = IF is_contactable(lead) THEN Some(now)
                                                           ELSE fired_at
                      /\ sent' = IF is_contactable(lead)
                                 THEN [ sent EXCEPT
                                          ![Val(c.step).step_number] = @ + 1 ]
                                 ELSE sent
                      /\ replied' = (replied /\ ~is_contactable(lead))
                 ELSE /\ c.skipped # {}
                      /\ lead' = advanced
                      /\ err' = "none"
                      /\ UNCHANGED <<fired_at, sent, replied>>
              /\ skipped' = skipped \cup c.skipped
    /\ UNCHANGED <<now, resp, delay, cond>>

\* The delivery collaborator reports a reply of the lead, which is recorded.
InboundReply ==
    /\ RecordInboundReply(NoSignals)
    /\ replied' = TRUE
    /\ UNCHANGED <<cond, skipped>>

\* The clock advances.
SchedTick ==
    /\ now < MaxTime
    /\ now' = now + 1
    /\ UNCHANGED <<lead, err, resp, delay, fired_at, sent>>

\* ------------------------------------- concurrent scheduler passes
\* What a pass holds between its read and its write.
NoRead == None

\* First half of a pass: the lead is read (LeadRepository.get_by_id), a lead
\* awaiting a reply or ghosted is skipped, and the next active step of the
\* campaign is looked up and found due.  Nothing is locked.
PassRead(p) ==
    /\ ppc[p] = "idle"
    /\ lead.conversation_state \notin {"awaiting_reply", "ghosted"}
    /\ \E s \in get_next_step(steps, is_active, LeadCampaign,
                              lead.current_sequence_step) :
          /\ ~IsNone(s)
          /\ Minutes(now) >= Minutes(previous_step_fired_at)
                               + total_delay_minutes(delay[Val(s).id])
          /\ pread' = [ pread EXCEPT ![p] = Some([ row |-> lead, step |-> s ]) ]
    /\ ppc' = [ ppc EXCEPT ![p] = "fire" ]
    /\ UNCHANGED <<now, resp, lead, err, delay, fired_at, sent>>

\* Second half: the step the pass read is handed to delivery and the lead
\* is written with LeadRepository.update, an UPDATE ... WHERE id = lead_id
\* of the columns recordOutboundStep sets; the write does not look at the
\* current_sequence_step the row has by then.
PassFire(p) ==
    /\ ppc[p] = "fire"
    /\ LET row         == Val(pread[p]).row
           step_number == Val(Val(pread[p]).step).step_number
           written     == recordOutboundStep(row, step_number, now)
       IN  IF is_contactable(row)
           THEN /\ lead' = [ lead EXCEPT
                      !.conversation_state = written.conversation_state,
                      !.ai_last_response_at = written.ai_last_response_at,
                      !.current_sequence_step = written.current_sequence_step ]
                /\ sent' = [ sent EXCEPT ![step_number] = @ + 1 ]
                /\ fired_at' = Some(now)
                /\ err' = "none"
           ELSE /\ err' = "InvalidTransition"
                /\ UNCHANGED <<lead, sent, fired_at>>
    /\ ppc' = [ ppc EXCEPT ![p] = "idle" ]
    /\ pread' = [ pread EXCEPT ![p] = NoRead ]
    /\ UNCHANGED <<now, resp, delay>>

\* ------------------------------------------- delivery outcome callback
MaxDeliveries == 2   \* delivery identifiers 1..MaxDeliveries

Deliveries == 1..MaxDeliveries
Outcomes   == {"opened", "clicked", "replied"}

\* Column defaults of the engagement counters of a lead and of a step.
NewLeadCounts == [ emails_opened |-> 0, emails_clicked |-> 0,
                   emails_replied |-> 0 ]
NewStepCounts == [ total_opened |-> 0, total_clicked |-> 0,
                   total_replied |-> 0 ]

\* The counter column an outcome is counted in.
LeadMetric(outcome) ==
    CASE outcome = "opened"  -> "emails_opened"
      [] outcome = "clicked" -> "emails_clicked"
      [] outcome = "replied" -> "emails_replied"

StepMetric(outcome) ==
    CASE outcome = "opened"  -> "total_opened"
      [] outcome = "clicked" -> "total_clicked"
      [] outcome = "replied" -> "total_replied"

\* LeadRepository.increment_metric: the row is read and the metric written
\* back as (current.get(metric, 0) or 0) + amount
lead_increment_metric(row, metric, amount) ==
    [ row EXCEPT ![metric] = OrZero(row[metric]) + amount ]

\* CampaignSequenceRepository.increment_metric
sequence_increment_metric(row, metric, amount) ==
    [ row EXCEPT ![metric] = OrZero(row[metric]) + amount ]

\* onOutcome(deliveryId, outcome): the outcome is counted on the lead and on
\* the step with the two increment_metric; neither takes the delivery
\* identifier and no table keeps the identifiers already applied.
OnOutcome(delivery_id, outcome) ==
    /\ lcount[LeadMetric(outcome)] < MaxCount
    /\ lcount' = lead_increment_metric(lcount, LeadMetric(outcome), 1)
    /\ scount' = sequence_increment_metric(scount, StepMetric(outcome), 1)
    /\ seen' = seen \cup {<<delivery_id, outcome>>}

\* History of the callback: late is set when an outcome is applied while the
\* campaign is paused.
TrackLate == late' = (late \/ campaign.status = "paused")

\* ------------------------------------------------- the scheduler sweep
\* get_active with the status filter widened to paused campaigns
get_active_or_paused(rows) == { r \in rows : r.status \in {"active", "paused"} }

\* CampaignRepository.get_active: select * where status = 'active'
get_active(rows) == { r \in rows : r.status = "active" }

\* The sweep (4.3): for each active campaign, for each of its leads, one
\* scheduler pass.
Sweep ==
    /\ campaign \in get_active({campaign})
    /\ SchedulerPass

Init ==
    /\ now = 0
    /\ tracking = NewTracking
    /\ resp = 0
    /\ op = "none"
    /\ wpc = [w \in Workers |-> "idle"]
    /\ wreq = [w \in Workers |-> NoProgress]
    /\ wrec = [w \in Workers |-> NewTracking]
    /\ wicp = [w \in Workers |-> 0]
    /\ icp_total = 0
    /\ steps = {}
    /\ next_id = 1
    /\ cpc = [p \in Procs |-> "idle"]
    /\ creq = [p \in Procs |-> NoStep]
    /\ campaign = NewCampaign
    /\ cmetrics = NewMetrics
    /\ mpc = [p \in Procs |-> "idle"]
    /\ mreq = [p \in Procs |-> NoMetric]
    /\ bant = NewBant
    /\ lead = NewLead
    /\ err = "none"
    /\ held = FALSE
    /\ is_active = [ id \in StepIds |-> TRUE ]   \* is_active: bool = True
    /\ found = None
    /\ delay = [ id \in StepIds |-> NoDelay ]
    /\ fired_at = None
    /\ sent = [ n \in StepNumbers |-> 0 ]
    /\ ppc = [ p \in Procs |-> "idle" ]
    /\ pread = [ p \in Procs |-> NoRead ]
    /\ lcount = NewLeadCounts
    /\ scount = NewStepCounts
    /\ seen = {}
    /\ late = FALSE
    /\ cond = [ id \in StepIds |-> "none" ]
    /\ replied = FALSE
    /\ skipped = {}
    /\ kpc = [ p \in Procs |-> "idle" ]
    /\ kreq = [ p \in Procs |-> "none" ]

Next ==
    \/ Tick /\ UNCHANGED <<raceVars, stepVars, campaign, extVars>>
    \/ (\E p \in ProgressInputs : Progress(p)) /\ UNCHANGED <<raceVars, stepVars, campaign, extVars>>
    \/ (\E f \in UpdateFields : \E v \in UpdateValues(f) : Update(f, v)) /\ UNCHANGED <<raceVars, stepVars, campaign, extVars>>
    \/ UpdateEmpty /\ UNCHANGED <<raceVars, stepVars, campaign, extVars>>
    \/ Pause /\ UNCHANGED <<raceVars, stepVars, campaign, extVars>>
    \/ Resume /\ UNCHANGED <<raceVars, stepVars, campaign, extVars>>
    \/ (\E m \in Messages : SetError(m)) /\ UNCHANGED <<raceVars, stepVars, campaign, extVars>>
    \/ ClearError /\ UNCHANGED <<raceVars, stepVars, campaign, extVars>>
    \/ ResetDaily /\ UNCHANGED <<raceVars, stepVars, campaign, extVars>>

Spec == Init /\ [][Next]_vars

RaceNext ==
    \/ (\E w \in Workers : \E p \in ProgressInputs : WorkerRead(w, p))
          /\ UNCHANGED <<stepVars, campaign, extVars>>
    \/ (\E w \in Workers : WorkerWrite(w)) /\ UNCHANGED <<stepVars, campaign, extVars>>
    \/ (\E w \in Workers : WorkerIcpRead(w)) /\ UNCHANGED <<stepVars, campaign, extVars>>
    \/ (\E w \in Workers : WorkerIcpWrite(w)) /\ UNCHANGED <<stepVars, campaign, extVars>>

RaceSpec == Init /\ [][RaceNext]_vars

StepNext ==
    \/ (\E p \in Procs : \E c \in Campaigns : \E n \in StepNumbers :
            CreateCheck(p, c, n))
          /\ UNCHANGED <<tracking, raceVars, campaign, extVars>>
    \/ (\E p \in Procs : CreateInsert(p))
          /\ UNCHANGED <<tracking, raceVars, campaign, extVars>>
    \/ (\E c \in Campaigns : \E i \in StepIds : \E n \in StepNumbers :
            UpdateStep(c, i, n))
          /\ UNCHANGED <<tracking, raceVars, campaign, extVars>>
    \/ (\E i \in StepIds : \E n \in StepNumbers : Reorder(i, n))
          /\ UNCHANGED <<tracking, raceVars, campaign, extVars>>
    \/ (\E c \in Campaigns : \E i \in StepIds : DeleteStep(c, i))
          /\ UNCHANGED <<tracking, raceVars, campaign, extVars>>

StepSpec == Init /\ [][StepNext]_vars

CampaignNext ==
    \/ CampaignTick /\ UNCHANGED <<tracking, raceVars, stepVars, extVars>>
    \/ StartCampaign /\ UNCHANGED <<tracking, raceVars, stepVars, extVars>>
    \/ PauseCampaign /\ UNCHANGED <<tracking, raceVars, stepVars, extVars>>
    \/ ResumeCampaign /\ UNCHANGED <<tracking, raceVars, stepVars, extVars>>
    \/ CompleteCampaign /\ UNCHANGED <<tracking, raceVars, stepVars, extVars>>
    \/ (\E s \in CampaignStatuses : UpdateCampaign(s))
          /\ UNCHANGED <<tracking, raceVars, stepVars, extVars>>

CampaignSpec == Init /\ [][CampaignNext]_vars

CampaignRaceNext ==
    \/ CampaignTick /\ UNCHANGED <<tracking, raceVars, stepVars, extVars>>
    \/ (\E p \in Procs : \E request \in StatusRequests : StatusCheck(p, request))
          /\ UNCHANGED <<tracking, raceVars, stepVars, metricVars, bant,
                         leadVars, seqVars, schedVars, passVars, outcomeVars,
                         condVars>>
    \/ (\E p \in Procs : StatusWrite(p))
          /\ UNCHANGED <<tracking, raceVars, stepVars, metricVars, bant,
                         leadVars, seqVars, schedVars, passVars, outcomeVars,
                         condVars>>

CampaignRaceSpec == Init /\ [][CampaignRaceNext]_vars

MetricNext ==
    \/ (\E data \in MetricUpdates : UpdateMetrics(data))
          /\ UNCHANGED <<now, resp, op, baseVars, bant, leadVars, seqVars, schedVars, passVars, outcomeVars, condVars, campRaceVars>>
    \/ (\E p \in Procs : \E metric \in Metrics : \E amount \in Amounts :
            IncrementRead(p, metric, amount))
          /\ UNCHANGED <<now, resp, op, baseVars, bant, leadVars, seqVars, schedVars, passVars, outcomeVars, condVars, campRaceVars>>
    \/ (\E p \in Procs : IncrementWrite(p))
          /\ UNCHANGED <<now, resp, op, baseVars, bant, leadVars, seqVars, schedVars, passVars, outcomeVars, condVars, campRaceVars>>

MetricSpec == Init /\ [][MetricNext]_vars

BantNext ==
    \/ (\E data \in BantUpdates : UpdateLeadBant(data))
          /\ UNCHANGED <<now, op, baseVars, metricVars, leadVars, seqVars, schedVars, passVars, outcomeVars, condVars, campRaceVars>>
    \/ (\E signals \in BantData : RecordInboundReply(signals))
          /\ UNCHANGED <<op, held, baseVars, metricVars, seqVars, schedVars, passVars, outcomeVars, condVars, campRaceVars>>

BantSpec == Init /\ [][BantNext]_vars

LeadNext ==
    \/ LeadTick /\ TrackGhost(FALSE)
          /\ UNCHANGED <<op, bant, baseVars, metricVars, seqVars, schedVars, passVars, outcomeVars, condVars, campRaceVars>>
    \/ (\E f \in LeadFields : \E v \in LeadValues(f) : UpdateLead(f, v))
          /\ TrackGhost(FALSE)
          /\ UNCHANGED <<op, bant, baseVars, metricVars, seqVars, schedVars, passVars, outcomeVars, condVars, campRaceVars>>
    \/ (\E n \in StepNumbers : FireStep(n)) /\ TrackGhost(FALSE)
          /\ UNCHANGED <<op, bant, baseVars, metricVars, seqVars, schedVars, passVars, outcomeVars, condVars, campRaceVars>>
    \/ RecordInboundReply(NoSignals) /\ TrackGhost(FALSE)
          /\ UNCHANGED <<op, baseVars, metricVars, seqVars, schedVars, passVars, outcomeVars, condVars, campRaceVars>>
    \/ GhostSweep /\ TrackGhost(FALSE)
          /\ UNCHANGED <<op, bant, baseVars, metricVars, seqVars, schedVars, passVars, outcomeVars, condVars, campRaceVars>>
    \/ AttemptReEngage /\ TrackGhost(lead' # lead)
          /\ UNCHANGED <<op, bant, baseVars, metricVars, seqVars, schedVars, passVars, outcomeVars, condVars, campRaceVars>>

LeadSpec == Init /\ [][LeadNext]_vars

NextStepNext ==
    \/ (next_id <= MaxSteps /\ \E c \in Campaigns : \E n \in StepNumbers :
            CreateCheck(1, c, n))
          /\ UNCHANGED <<tracking, raceVars, campaign, extVars>>
    \/ CreateInsert(1)
          /\ UNCHANGED <<tracking, raceVars, campaign, extVars>>
    \/ (\E id \in StepIds : \E n \in StepNumbers : Reorder(id, n))
          /\ UNCHANGED <<tracking, raceVars, campaign, extVars>>
    \/ (\E id \in StepIds : Activate(id))
          /\ UNCHANGED <<now, resp, op, baseVars, metricVars, bant, leadVars, schedVars, passVars, outcomeVars, condVars, campRaceVars>>
    \/ (\E id \in StepIds : Deactivate(id))
          /\ UNCHANGED <<now, resp, op, baseVars, metricVars, bant, leadVars, schedVars, passVars, outcomeVars, condVars, campRaceVars>>
    \/ (\E c \in Campaigns : \E cur \in CurrentSteps : GetNextStep(c, cur))
          /\ UNCHANGED <<now, resp, op, baseVars, metricVars, bant, leadVars, schedVars, passVars, outcomeVars, condVars, campRaceVars>>

NextStepSpec == Init /\ [][NextStepNext]_vars

SchedNext ==
    \/ SchedTick
          /\ UNCHANGED <<op, held, bant, baseVars, metricVars, seqVars,
                         passVars, outcomeVars, condVars, campRaceVars>>
    \/ (next_id <= MaxSteps /\ \E n \in StepNumbers :
            CreateCheck(1, LeadCampaign, n))
          /\ UNCHANGED <<tracking, raceVars, campaign, extVars>>
    \/ CreateInsert(1)
          /\ UNCHANGED <<tracking, raceVars, campaign, extVars>>
    \/ (\E id \in StepIds : \E f \in DelayFields : \E v \in DelayValues(f) :
            UpdateStepDelay(LeadCampaign, id, f, v))
          /\ UNCHANGED <<op, baseVars, metricVars, bant, leadVars, seqVars,
                         passVars, outcomeVars, condVars, campRaceVars>>
    \/ SchedulerPass /\ TrackGhost(FALSE)
          /\ UNCHANGED <<op, bant, baseVars, metricVars, seqVars,
                         passVars, outcomeVars, campRaceVars>>
    \/ InboundReply /\ TrackGhost(FALSE)
          /\ UNCHANGED <<op, baseVars, metricVars, seqVars, schedVars,
                         passVars, outcomeVars, campRaceVars>>

SchedSpec == Init /\ [][SchedNext]_vars

CondNext ==
    \/ (next_id <= MaxSteps /\ \E n \in StepNumbers :
            CreateCheck(1, LeadCampaign, n))
          /\ UNCHANGED <<tracking, raceVars, campaign, extVars>>
    \/ CreateInsert(1)
          /\ UNCHANGED <<tracking, raceVars, campaign, extVars>>
    \/ (\E id \in StepIds : \E c \in Conditions :
            SetCondition(LeadCampaign, id, c))
          /\ UNCHANGED <<op, baseVars, metricVars, bant, leadVars, seqVars,
                         schedVars, passVars, outcomeVars, campRaceVars>>
    \/ (\E id \in StepIds : Deactivate(id))
          /\ UNCHANGED <<now, resp, op, baseVars, metricVars, bant, leadVars,
                         schedVars, passVars, outcomeVars, condVars, campRaceVars>>
    \/ SchedulerPass /\ TrackGhost(FALSE)
          /\ UNCHANGED <<op, bant, baseVars, metricVars, seqVars,
                         passVars, outcomeVars, campRaceVars>>
    \/ InboundReply /\ TrackGhost(FALSE)
          /\ UNCHANGED <<op, baseVars, metricVars, seqVars, schedVars,
                         passVars, outcomeVars, campRaceVars>>

CondSpec == Init /\ [][CondNext]_vars

PassRaceNext ==
    \/ (next_id <= MaxSteps /\ \E c \in Campaigns : \E n \in StepNumbers :
            CreateCheck(1, c, n))
          /\ UNCHANGED <<tracking, raceVars, campaign, extVars>>
    \/ CreateInsert(1)
          /\ UNCHANGED <<tracking, raceVars, campaign, extVars>>
    \/ (\E p \in Procs : PassRead(p))
          /\ UNCHANGED <<op, held, bant, baseVars, metricVars, seqVars,
                         outcomeVars, condVars, campRaceVars>>
    \/ (\E p \in Procs : PassFire(p)) /\ TrackGhost(FALSE)
          /\ UNCHANGED <<op, bant, baseVars, metricVars, seqVars,
                         outcomeVars, condVars, campRaceVars>>
    \/ RecordInboundReply(NoSignals) /\ TrackGhost(FALSE)
          /\ UNCHANGED <<op, baseVars, metricVars, seqVars, schedVars,
                         passVars, outcomeVars, condVars, campRaceVars>>

PassRaceSpec == Init /\ [][PassRaceNext]_vars

OutcomeNext ==
    (\E d \in Deliveries : \E o \in Outcomes : OnOutcome(d, o)) /\ TrackLate
        /\ UNCHANGED <<now, resp, op, baseVars, metricVars, bant, leadVars,
                       seqVars, schedVars, passVars, condVars, campRaceVars>>

OutcomeSpec == Init /\ [][OutcomeNext]_vars

PauseNext ==
    \/ (next_id <= MaxSteps /\ \E n \in StepNumbers :
            CreateCheck(1, LeadCampaign, n))
          /\ UNCHANGED <<tracking, raceVars, campaign, extVars>>
    \/ CreateInsert(1)
          /\ UNCHANGED <<tracking, raceVars, campaign, extVars>>
    \/ StartCampaign /\ UNCHANGED <<tracking, raceVars, stepVars, extVars>>
    \/ PauseCampaign /\ UNCHANGED <<tracking, raceVars, stepVars, extVars>>
    \/ ResumeCampaign /\ UNCHANGED <<tracking, raceVars, stepVars, extVars>>
    \/ Sweep /\ TrackGhost(FALSE)
          /\ UNCHANGED <<op, bant, baseVars, metricVars, seqVars,
                         passVars, outcomeVars, campRaceVars>>
    \/ InboundReply /\ TrackGhost(FALSE)
          /\ UNCHANGED <<op, baseVars, metricVars, seqVars, schedVars,
                         passVars, outcomeVars, campRaceVars>>
    \/ ((\E n \in StepNumbers : sent[n] > 0)
          /\ \E d \in Deliveries : OnOutcome(d, "replied")) /\ TrackLate
          /\ UNCHANGED <<now, resp, op, baseVars, metricVars, bant, leadVars,
                         seqVars, schedVars, passVars, condVars, campRaceVars>>

PauseSpec == Init /\ [][PauseNext]_vars

\* ==================================================================
\* Properties of the quota / pagination tracker
\* ==================================================================

\* The fetch cursor of a row: the fields a resumed fetch continues from.
Cursor(row) ==
    << row.current_page, row.total_pages,
       row.total_leads_fetched, row.daily_leads_fetched >>

\* total_pages is known when it is set and non-zero (has_more_pages and
\* progress_percent treat 0 like NULL).
Known(total_pages) == Truthy(total_pages)

\* C1: current_page never decreases: after any tracker operation it is >=
\* its value before the operation.
C1_CurrentPageNonDecreasing ==
    [][tracking'.current_page >= tracking.current_page]_vars

\* C2: a progress request whose current_page is below the stored one is
\* rejected with a 400 and leaves the whole row unchanged.
C2_LowerPageRejected ==
    [][\A p \in ProgressInputs :
         (Progress(p) /\ p.current_page < tracking.current_page)
            => (resp' = 400 /\ tracking' = tracking)]_vars

\* C3: a progress request adds leads_fetched to both counters, sets
\* current_page, stores total_pages when given, and sets status to
\* completed whenever the known total_pages (stored, or just given) is <=
\* the new current_page.
C3_AdvanceEffect ==
    [][\A p \in ProgressInputs :
         Progress(p) =>
           LET total == IF Known(p.total_pages) THEN p.total_pages
                        ELSE tracking.total_pages
           IN /\ tracking'.total_leads_fetched
                    = tracking.total_leads_fetched + p.leads_fetched
              /\ tracking'.daily_leads_fetched
                    = tracking.daily_leads_fetched + p.leads_fetched
              /\ tracking'.current_page = p.current_page
              /\ Known(p.total_pages) => tracking'.total_pages = p.total_pages
              /\ (Known(total) /\ Val(total) <= p.current_page)
                    => tracking'.status = "completed"]_vars

\* C4: once total_pages is known, current_page <= total_pages, and the
\* status is completed exactly when total_pages is known and reached.
C4_TrackerInvariant ==
    /\ Known(tracking.total_pages)
          => tracking.current_page <= Val(tracking.total_pages)
    /\ tracking.status = "completed"
          <=> ( Known(tracking.total_pages)
                /\ tracking.current_page >= Val(tracking.total_pages) )

\* C5: when two workers have both finished a progress request on the same
\* row, both counters of the row and the ICP's leads_fetched_total have
\* grown by the sum of the two batches, under every interleaving.
C5_NoLostUpdate ==
    (\A w \in Workers : wpc[w] = "done") =>
        LET sum == wreq[1].leads_fetched + wreq[2].leads_fetched
        IN /\ tracking.total_leads_fetched = sum
           /\ tracking.daily_leads_fetched = sum
           /\ icp_total = sum

\* C6: the daily reset zeroes daily_leads_fetched and stamps
\* last_daily_reset_at on a row never reset or reset more than 24h ago; a
\* run within 24h of the row's last reset leaves the row as it is, leads
\* fetched since included; and two stamps of one row are more than 24h
\* apart.
C6_ResetIdempotent ==
    [][ /\ ResetDaily =>
             IF IsNone(tracking.last_daily_reset_at)
                \/ now - Val(tracking.last_daily_reset_at) > Day
             THEN /\ tracking'.daily_leads_fetched = 0
                  /\ tracking'.last_daily_reset_at = Some(now)
             ELSE tracking' = tracking
        /\ tracking'.last_daily_reset_at # tracking.last_daily_reset_at =>
             \/ IsNone(tracking.last_daily_reset_at)
             \/ Val(tracking'.last_daily_reset_at)
                   - Val(tracking.last_daily_reset_at) > Day ]_vars

\* A second run, a day after the run that reset the row, has found the
\* row with leads fetched in between and left it alone.
C6_Witness ==
    /\ op = "reset_daily_counts"
    /\ ~IsNone(tracking.last_daily_reset_at)
    /\ Val(tracking.last_daily_reset_at) < now
    /\ now - Val(tracking.last_daily_reset_at) <= Day
    /\ tracking.daily_leads_fetched > 0

\* C7: set_error moves the row to failed and stores the message and the
\* time, clear_error moves it back to active and clears the message; both
\* leave current_page, total_pages and the two counters as they were.
C7_ErrorPreservesCursor ==
    [][ /\ \A m \in Messages :
             SetError(m) =>
               /\ tracking'.status = "failed"
               /\ tracking'.error_message = Some(m)
               /\ tracking'.last_error_at = Some(now)
               /\ Cursor(tracking') = Cursor(tracking)
        /\ ClearError =>
               /\ tracking'.status = "active"
               /\ IsNone(tracking'.error_message)
               /\ Cursor(tracking') = Cursor(tracking) ]_vars

\* An error has been cleared on a row that had advanced past page 1.
C7_Witness ==
    /\ op = "clear_error"
    /\ tracking.status = "active"
    /\ tracking.current_page > 1
    /\ tracking.total_leads_fetched > 0

\* ==================================================================
\* Properties of the sequence steps and of the campaign status
\* ==================================================================

\* C8: a create request for a step_number that a step of the same
\* campaign already has is answered 400 and inserts nothing; a
\* step_number used only by another campaign passes the check, and the
\* insert that follows adds exactly that step and answers 201.
C8_DuplicateStepRejected ==
    [][ /\ \A p \in Procs : \A c \in Campaigns : \A n \in StepNumbers :
             CreateCheck(p, c, n) =>
               IF \E r \in steps : r.campaign_id = c /\ r.step_number = n
               THEN /\ resp' = 400
                    /\ steps' = steps
                    /\ cpc'[p] = "idle"
               ELSE /\ cpc'[p] = "insert"
                    /\ creq'[p] = [ campaign_id |-> c, step_number |-> n ]
        /\ \A p \in Procs :
             CreateInsert(p) =>
               /\ resp' = 201
               /\ \E r \in steps' :
                    /\ r \notin steps
                    /\ r.campaign_id = creq[p].campaign_id
                    /\ r.step_number = creq[p].step_number
                    /\ steps' = steps \cup {r} ]_vars

\* A duplicate has just been refused while two campaigns each hold a step
\* with the same number.
C8_Witness ==
    /\ resp = 400
    /\ \E r1 \in steps : \E r2 \in steps :
         /\ r1.campaign_id # r2.campaign_id
         /\ r1.step_number = r2.step_number
    /\ \A r1 \in steps : \A r2 \in steps :
         (r1.id # r2.id /\ r1.campaign_id = r2.campaign_id)
            => r1.step_number # r2.step_number

\* C9: no two steps of one campaign have the same step_number, whatever
\* the sequence and interleaving of create, update, reorder and delete.
C9_StepNumbersUnique ==
    \A r1 \in steps : \A r2 \in steps :
        (r1.id # r2.id /\ r1.campaign_id = r2.campaign_id)
           => r1.step_number # r2.step_number

\* C10: start succeeds only from draft, scheduled or paused, pause only
\* from active, resume only from paused, complete only from a status other
\* than completed and archived; any other request is answered 400 and
\* leaves status, started_at and completed_at as they were.
C10_TransitionTable ==
    [][ /\ StartCampaign =>
             IF campaign.status \in {"draft", "scheduled", "paused"}
             THEN campaign' = [ campaign EXCEPT !.status = "active",
                                                !.started_at = Some(now) ]
             ELSE resp' = 400 /\ campaign' = campaign
        /\ PauseCampaign =>
             IF campaign.status = "active"
             THEN campaign' = [ campaign EXCEPT !.status = "paused" ]
             ELSE resp' = 400 /\ campaign' = campaign
        /\ ResumeCampaign =>
             IF campaign.status = "paused"
             THEN campaign' = [ campaign EXCEPT !.status = "active" ]
             ELSE resp' = 400 /\ campaign' = campaign
        /\ CompleteCampaign =>
             IF campaign.status \notin {"completed", "archived"}
             THEN campaign' = [ campaign EXCEPT !.status = "completed",
                                                !.completed_at = Some(now) ]
             ELSE resp' = 400 /\ campaign' = campaign ]_vars

\* ==================================================================
\* Claims about the campaign counters (specification MetricSpec)
\* ==================================================================

\* C11: the aggregate counters of a campaign never go down: over every
\* sequence and interleaving of metric increments and metric updates each
\* counter is at least every value it held before.
C11_CountersMonotonic ==
    [][ \A m \in Metrics : cmetrics'[m] >= cmetrics[m] ]_vars

\* ==================================================================
\* Claims about the BANT columns of a lead (specification BantSpec)
\* ==================================================================

\* The sum of the four stored sub-scores.
SubScoreSum(row) ==
    row.bant_data["budget"] + row.bant_data["authority"]
        + row.bant_data["need"] + row.bant_data["timeline"]

\* C12: in every reachable state the overall BANT score of a lead is the
\* sum of its four sub-scores, every sub-score is in 0..3 and the overall
\* score in 0..12, and no update changes the overall score without the
\* sub-scores or the sub-scores without the overall score.
C12_OverallIsSum ==
    /\ bant.bant_score = SubScoreSum(bant)
    /\ \A c \in Categories : bant.bant_data[c] \in 0..3
    /\ bant.bant_score \in 0..12

\* C15: every stored BANT sub-score of a lead is the running maximum of the
\* evidence recorded for it: no sub-score ever decreases, so budget = 1
\* followed by budget = 0 leaves the stored budget score at 1.
C15_SubScoresNeverDecrease ==
    [][ \A c \in Categories : bant'.bant_data[c] >= bant.bant_data[c] ]_vars

\* ==================================================================
\* Claims about the lead lifecycle (specification LeadSpec)
\* ==================================================================

\* C13: once a lead is ghosted no outbound step fires for it (no
\* recordOutboundStep, no advance of current_sequence_step) until an
\* attemptReEngage on the lead succeeds.
C13_NoStepWhileGhosted ==
    [][ /\ (lead'.current_sequence_step # lead.current_sequence_step) => ~held
        /\ \A n \in StepNumbers : (FireStep(n) /\ lead' # lead) => ~held ]_vars

\* C14: re_engagement_count never exceeds max_re_engagements (so
\* attemptReEngage succeeds at most max_re_engagements times), and an
\* attempt on a lead that is not ghosted or has used all its re-engagements
\* fails with ReEngagementExhausted and changes neither the count nor the
\* conversation state.
C14_ReEngagementBounded ==
    [][ /\ lead'.re_engagement_count <= lead'.max_re_engagements
        /\ ( /\ AttemptReEngage
             /\ \/ lead.conversation_state # "ghosted"
                \/ lead.re_engagement_count = lead.max_re_engagements )
           => /\ err' = "ReEngagementExhausted"
              /\ lead'.re_engagement_count = lead.re_engagement_count
              /\ lead'.conversation_state = lead.conversation_state ]_vars

\* C19: recordOutboundStep on a lead that is do_not_contact or unsubscribed
\* fails with InvalidTransition and changes nothing on the lead; on any
\* other lead it sets conversation_state to awaiting_reply,
\* ai_last_response_at to now and current_sequence_step to the step number.
C19_RecordOutboundStep ==
    [][ \A n \in StepNumbers :
          FireStep(n) =>
            IF lead.do_not_contact \/ lead.is_unsubscribed
            THEN err' = "InvalidTransition" /\ lead' = lead
            ELSE /\ err' = "none"
                 /\ lead'.conversation_state = "awaiting_reply"
                 /\ lead'.ai_last_response_at = Some(now)
                 /\ lead'.current_sequence_step = n ]_vars

\* A step was recorded for the lead, and a later one was refused.
C19_Witness ==
    /\ err = "InvalidTransition"
    /\ lead.current_sequence_step > 0
    /\ lead.is_unsubscribed

\* ==================================================================
\* Claims about the selection of the next step (specification NextStepSpec)
\* ==================================================================

\* The active steps of a campaign after a current step.
ActiveAfter(campaign_id, current_step) ==
    { r \in steps : /\ r.campaign_id = campaign_id
                    /\ is_active[r.id]
                    /\ r.step_number > current_step }

\* C20: the next step selected for a lead is the active step of the lead's
\* campaign with the smallest step_number strictly greater than the lead's
\* current_sequence_step; inactive steps and steps of other campaigns are
\* never returned, and the result is empty exactly when no active step of
\* the campaign has a larger step_number.
C20_NextActiveStep ==
    [][ \A c \in Campaigns : \A cur \in CurrentSteps :
          GetNextStep(c, cur) =>
            /\ IsNone(found') <=> (ActiveAfter(c, cur) = {})
            /\ ~IsNone(found') =>
                 /\ Val(found') \in ActiveAfter(c, cur)
                 /\ \A r \in ActiveAfter(c, cur) :
                      Val(found').step_number <= r.step_number ]_vars

\* Step 2 was returned although the campaign has a step 1 switched off.
C20_Witness ==
    /\ ~IsNone(found)
    /\ Val(found) \in steps
    /\ Val(found).step_number = 2
    /\ is_active[Val(found).id]
    /\ \E r \in steps : /\ r.campaign_id = Val(found).campaign_id
                        /\ r.step_number = 1
                        /\ ~is_active[r.id]

\* ==================================================================
\* Claims about the sequencing scheduler (specification SchedSpec)
\* ==================================================================

\* C16: a step never fires before it is due: when a step fires, now is at
\* least the time the previous step fired plus the step's delay in minutes
\* (for steps [1: delay 0] and [2: delay 1440 min], step 1 may fire at once
\* and step 2 no earlier than 24h after step 1 fired).
C16_NotBeforeDue ==
    [][ (SchedulerPass /\ lead'.current_sequence_step # lead.current_sequence_step)
        => \E r \in steps :
             /\ r.campaign_id = LeadCampaign
             /\ r.step_number = lead'.current_sequence_step
             /\ now * 1440 >= previous_step_fired_at * 1440
                                + delay[r.id].delay_days * 1440
                                + delay[r.id].delay_hours * 60
                                + delay[r.id].delay_minutes ]_vars

\* Step 2, delayed by a day, has just fired after step 1.
C16_Witness ==
    /\ lead.current_sequence_step = 2
    /\ fired_at = Some(now)
    /\ sent[1] = 1 /\ sent[2] = 1
    /\ \E r \in steps : /\ r.campaign_id = LeadCampaign
                        /\ r.step_number = 2
                        /\ delay[r.id].delay_days = 1
    /\ \E r \in steps : /\ r.campaign_id = LeadCampaign
                        /\ r.step_number = 1


C21_DetectGhost ==
    [][ LET overdue ==
              /\ lead.conversation_state = "awaiting_reply"
              /\ ~IsNone(lead.ai_last_response_at)
              /\ now - Val(lead.ai_last_response_at) > lead.ghost_timeout_hours
        IN  /\ detectGhost(lead, now) <=> overdue
            /\ GhostSweep =>
                  /\ overdue
                  /\ lead' = [ lead EXCEPT
                        !.conversation_state = "ghosted",
                        !.sequence_paused_at_step =
                            Some(lead.current_sequence_step) ] ]_vars

\* The lead was sent step 1 or later, stayed silent for longer than its
\* timeout and was ghosted by the sweep at the step it stopped at.
C21_Witness ==
    /\ lead.conversation_state = "ghosted"
    /\ lead.current_sequence_step >= 1
    /\ lead.sequence_paused_at_step = Some(lead.current_sequence_step)
    /\ ~IsNone(lead.ai_last_response_at)
    /\ now - Val(lead.ai_last_response_at) = lead.ghost_timeout_hours + 1

\* C22: a pause, resume, set-error, clear-error or progress request moves
\* the status of a tracker only along active <-> paused, active -> completed,
\* active -> failed and failed -> active; completed is left by none of them
\* and resume does not turn a failed tracker active.
C22_TrackerTransitions ==
    [][ (op' \in {"pause", "resume", "set_error", "clear_error", "progress"}
         /\ tracking'.status # tracking.status)
        => \/ <<tracking.status, tracking'.status>> \in
                 { <<"active", "paused">>, <<"paused", "active">>,
                   <<"active", "completed">>, <<"active", "failed">> }
           \/ /\ tracking.status = "failed"
              /\ tracking'.status = "active"
              /\ op' = "clear_error" ]_vars

\* C23: when the condition of the next candidate step fails, the pass
\* skips the step without firing it and, in the same pass, fires the next
\* active step with a larger step_number whose condition holds; a step that
\* was skipped is fired on no later pass.
C23_FailedConditionSkipped ==
    [][ /\ \A n \in skipped : sent'[n] = sent[n]
        /\ SchedulerPass =>
              LET after   == ActiveAfter(LeadCampaign, lead.current_sequence_step)
                  first   == { r \in after :
                                 \A q \in after : r.step_number <= q.step_number }
                  passing == { r \in after : condition_holds(r) }
                  target  == { r \in passing :
                                 \A q \in passing : r.step_number <= q.step_number }
              IN  \A r \in first : ~condition_holds(r) =>
                    /\ r.step_number \in skipped'
                    /\ sent'[r.step_number] = sent[r.step_number]
                    /\ lead'.current_sequence_step >= r.step_number
                    /\ \A t \in target : is_contactable(lead) =>
                          /\ sent'[t.step_number] = sent[t.step_number] + 1
                          /\ lead'.current_sequence_step = t.step_number ]_vars

\* Step 1 was skipped on its failing condition and step 2 fired in its
\* place; step 1 was never sent.
C23_Witness ==
    /\ skipped = {1}
    /\ sent[1] = 0
    /\ sent[2] = 1
    /\ lead.current_sequence_step = 2
    /\ lead.conversation_state = "awaiting_reply"

\* C24: when several steps are due for the lead at the same time, one pass
\* fires one step only, the active step with the lowest step_number after
\* current_sequence_step, and current_sequence_step becomes its number; so
\* the steps of a lead fire in strictly increasing step_number order.
C24_LowestFiresFirst ==
    [][ SchedulerPass =>
          LET after == ActiveAfter(LeadCampaign, lead.current_sequence_step)
              fired == { n \in StepNumbers : sent'[n] # sent[n] }
          IN  /\ Cardinality(fired) <= 1
              /\ \A n \in fired :
                    /\ sent'[n] = sent[n] + 1
                    /\ n > lead.current_sequence_step
                    /\ \A r \in after : n <= r.step_number
                    /\ \A m \in StepNumbers : m >= n => sent[m] = 0
                    /\ lead'.current_sequence_step = n ]_vars

\* Steps 1 and 2 were both due at time 0 and fired there one after the
\* other, step 1 before the lead's reply and step 2 after it.
C24_Witness ==
    /\ now = 0
    /\ sent[1] = 1 /\ sent[2] = 1
    /\ fired_at = Some(0)
    /\ lead.current_sequence_step = 2
    /\ \A r \in steps : delay[r.id] = NoDelay

C26_CanReEngage ==
    can_re_engage(lead) <=>
        (lead.re_engagement_count < lead.max_re_engagements)

\* C27: in every lead state the qualification status is the band of the
\* overall score (0..3 unqualified, 4..7 partially_qualified, 8..12
\* qualified), so is_bant_qualified holds exactly when the status is
\* qualified, also after a lead update that sets score and status.
C27_StatusIsBand ==
    /\ bant.bant_score \in 0..3  => bant.bant_status = "unqualified"
    /\ bant.bant_score \in 4..7  => bant.bant_status = "partially_qualified"
    /\ bant.bant_score \in 8..12 => bant.bant_status = "qualified"
    /\ is_bant_qualified(bant) <=> (bant.bant_status = "qualified")

\* C28: when no progress request through POST /icps/{icp_id}/tracking/progress
\* is in flight, the ICP's leads_fetched_total equals the tracker's
\* total_leads_fetched, under every interleaving of the requests served.
C28_CountersAgree ==
    (\A w \in Workers : wpc[w] \in {"idle", "done"}) =>
        icp_total = tracking.total_leads_fetched

\* C29: through the start, pause, resume and complete endpoints a completed
\* campaign stays completed, under every interleaving of two concurrent
\* requests.
C29_CompletedStaysCompleted ==
    [][ campaign.status = "completed" => campaign'.status = "completed" ]_vars

\* C30: a tracker whose status is completed is reported with
\* has_more_pages = false, after any sequence of progress reports and
\* status changes.
C30_CompletedHasNoMorePages ==
    tracking.status = "completed" => ~has_more_pages(tracking)
====
